---------------------------- MODULE Spec2Model ----------------------------
(***************************************************************************)
(* Vietnamese lunar calendar: a model of lunar_solar.py (the conversion    *)
(* engine) and of the Home Assistant sensors of sensor.py that call it.    *)
(*                                                                         *)
(* The Python code computes with IEEE doubles.  The model computes the     *)
(* same formulas in fixed point over the integers:                         *)
(*   - instants of time are a whole day number plus micro-days (1e-6 d);   *)
(*   - Julian centuries (time_julian) are in units of 1e-6;                *)
(*   - angles are in units of 1e-4 degree;                                 *)
(*   - sines are in units of 1e-6.                                         *)
(* Python's int(x) truncates toward zero; TruncDiv does the same, whereas  *)
(* \div of TLA+ is the floor.                                              *)
(***************************************************************************)
EXTENDS Integers, Sequences, FiniteSets, TLC

(***************************************************************************)
(* Arithmetic helpers                                                      *)
(***************************************************************************)

Abs(x) == IF x < 0 THEN -x ELSE x

Sign(x) == IF x < 0 THEN -1 ELSE 1

\* int(a / b) of Python for b > 0: the quotient truncated toward zero.
TruncDiv(a, b) == Sign(a) * (Abs(a) \div b)

\* One step of the long multiplication below: p is <<q, r>> for the higher
\* digits of the multiplier, d the next digit.
MulDivStep(p, x, d, c) ==
    <<10 * p[1] + (10 * p[2] + x * d) \div c, (10 * p[2] + x * d) % c>>

\* <<q, r>> with x * y = q * c + r and 0 <= r < c, for x, y >= 0, by long
\* multiplication over the decimal digits of y (no intermediate exceeds
\* 10 * c + 9 * x).
RECURSIVE MulDivNat(_, _, _)
MulDivNat(x, y, c) ==
    IF y = 0 THEN <<0, 0>>
    ELSE MulDivStep(MulDivNat(x, y \div 10, c), x, y % 10, c)

\* x * y / c truncated toward zero (y >= 0, c > 0): a float product scaled.
MulDiv(x, y, c) == Sign(x) * MulDivNat(Abs(x), y, c)[1]

\* a * b / 1e6 for a, b >= 0 in units of 1e-6, by three-digit limbs.
Mul6Nat(a, b) ==
    (a \div 1000) * (b \div 1000)
      + ((a \div 1000) * (b % 1000) + (a % 1000) * (b \div 1000)) \div 1000
      + ((a % 1000) * (b % 1000)) \div 1000000

\* The product of two fixed-point numbers in units of 1e-6.
Mul6(a, b) == Sign(a) * Sign(b) * Mul6Nat(Abs(a), Abs(b))

\* The Taylor series of the sine to x^11 in Horner form, x2 being x * x.
SinSeries(x, x2) ==
    Mul6(x, 1000000 - Mul6(x2,
            1000000 - Mul6(x2,
            1000000 - Mul6(x2,
            1000000 - Mul6(x2,
            1000000 - Mul6(x2, 1000000) \div 110) \div 72) \div 42) \div 20) \div 6)

\* math.sin on [0, pi/2]: x in 1e-6 rad, result in 1e-6.
SinQ(x) == SinSeries(x, Mul6(x, x))

\* An angle h of the first half turn, in 1e-4 degree, folded to the first
\* quadrant.
FirstQuadrant(h) == IF h <= 900000 THEN h ELSE 1800000 - h

\* The sine of an angle m of the first turn, in 1e-4 degree.
SinTurn(m) ==
    (IF m < 1800000 THEN 1 ELSE -1)
      * SinQ(Mul6(FirstQuadrant(m % 1800000), 1745329))

\* math.sin(a * degree_to_radian) for an angle a in 1e-4 degree of either
\* sign: reduced to the first turn, then to the first quadrant.
SinDeg(a) == SinTurn(a % 3600000)

\* (ci + cf4 * 1e-4 + cf8 * 1e-8) * k degrees, in 1e-4 degree, the whole
\* turns of the integral part dropped.
LinDeg(ci, cf4, cf8, k) ==
    ((ci * k) % 360) * 10000 + cf4 * k + MulDiv(k, cf8, 10000)


(***************************************************************************)
(* Julian day numbers (lunar_solar.py, lines 17-50)                        *)
(***************************************************************************)

\* The Gregorian formula is kept from this day number on (15 Oct 1582).
GregorianStart == 2299161

\* A variant of the test below that sends one more day number to the Julian
\* formula; the step over the calendar change depends on the difference.
julian_formula_applies_late(julian_day) == julian_day < GregorianStart + 1

\* Line 29: if julian_day < 2299161.
julian_formula_applies(julian_day) == julian_day < GregorianStart

julian_day_from_date(dd, mm, yy) ==
    LET temp_a == TruncDiv(14 - mm, 12)
        temp_year == yy + 4800 - temp_a
        temp_month == mm + 12 * temp_a - 3
        julian_day == dd + TruncDiv(153 * temp_month + 2, 5)
                         + 365 * temp_year + TruncDiv(temp_year, 4)
                         - TruncDiv(temp_year, 100) + TruncDiv(temp_year, 400)
                         - 32045
    IN  IF julian_formula_applies(julian_day)
        THEN dd + TruncDiv(153 * temp_month + 2, 5)
                + 365 * temp_year + TruncDiv(temp_year, 4) - 32083
        ELSE julian_day

\* A variant of the test below that converts the first Gregorian day number
\* back with the Julian constants.
gregorian_inverse_applies_late(julian_day) == julian_day > GregorianStart

\* Line 37: if julian_day > 2299160.
gregorian_inverse_applies(julian_day) == julian_day > GregorianStart - 1

julian_day_to_date(julian_day) ==
    LET greg == gregorian_inverse_applies(julian_day)
        temp_a == julian_day + 32044
        temp_b == IF greg THEN TruncDiv(4 * temp_a + 3, 146097) ELSE 0
        temp_c == IF greg THEN temp_a - TruncDiv(temp_b * 146097, 4)
                  ELSE julian_day + 32082
        temp_d == TruncDiv(4 * temp_c + 3, 1461)
        temp_e == temp_c - TruncDiv(1461 * temp_d, 4)
        temp_m == TruncDiv(5 * temp_e + 2, 153)
        _day == temp_e - TruncDiv(153 * temp_m + 2, 5) + 1
        _month == temp_m + 3 - 12 * TruncDiv(temp_m, 10)
        _year == temp_b * 100 + temp_d - 4800 + TruncDiv(temp_m, 10)
    IN  <<_day, _month, _year>>

(***************************************************************************)
(* New moons (lunar_solar.py, lines 53-111 and 142-144)                    *)
(***************************************************************************)

\* The day number the new-moon series counts from: julian_day_1 starts at
\* 2415020.75933, of which NewMoonEpoch is the whole part.
NewMoonEpoch == 2415020

\* The quantities of new_moon, each from the ones before it: time_julian
\* and its powers are in 1e-6 century, the angles in 1e-4 degree, the sums
\* in micro-days.

\* julian_day_1 less NewMoonEpoch + 29 * k_th (lines 62-66).
julian_day_1(k_th, time_julian, time_julian_2, time_julian_3) ==
    759330 + 530588 * k_th + MulDiv(k_th, 68, 100)
      + MulDiv(time_julian_2, 1178, 10000000)
      - MulDiv(TruncDiv(time_julian_3, 10), 155, 100000000)
      + Mul6(330, SinDeg(1665600 + MulDiv(time_julian, 13287, 10000)
                           - MulDiv(time_julian_2, 9173, 100000000)))

\* Lines 68-69.
mean_new_moon(k_th, time_julian_2, time_julian_3) ==
    (3592242 + LinDeg(29, 1053, 5608, k_th)
       - MulDiv(TruncDiv(time_julian_2, 10), 333, 100000000)
       - MulDiv(TruncDiv(time_julian_3, 100), 347, 100000000)) % 3600000

\* Lines 71-72.
sun_mean_anomaly(k_th, time_julian_2, time_julian_3) ==
    (3060253 + LinDeg(385, 8169, 1806, k_th)
       + MulDiv(TruncDiv(time_julian_2, 10), 107306, 100000000)
       + MulDiv(TruncDiv(time_julian_3, 100), 1236, 100000000)) % 3600000

\* Lines 74-75.
moon_mean_anomaly(k_th, time_julian_2, time_julian_3) ==
    (212964 + LinDeg(390, 6705, 646, k_th)
       - MulDiv(TruncDiv(time_julian_2, 10), 16528, 100000000)
       - MulDiv(TruncDiv(time_julian_3, 100), 239, 100000000)) % 3600000

\* Lines 77-99, the arguments being mean_new_moon, sun_mean_anomaly and
\* moon_mean_anomaly.
moon_arg_lat(time_julian, mnm, sma, mma) ==
      Mul6(173400 - MulDiv(time_julian, 393, 1000000), SinDeg(mnm))
    + Mul6(2100, SinDeg(2 * mnm))
    - Mul6(406800, SinDeg(sma))
    + Mul6(16100, SinDeg(2 * sma))
    - Mul6(400, SinDeg(3 * sma))
    + Mul6(10400, SinDeg(2 * mma))
    - Mul6(5100, SinDeg(mnm + sma))
    - Mul6(7400, SinDeg(mnm - sma))
    + Mul6(400, SinDeg(2 * mma + mnm))
    - Mul6(400, SinDeg(2 * mma - mnm))
    - Mul6(600, SinDeg(2 * mma + sma))
    + Mul6(1000, SinDeg(2 * mma - sma))
    + Mul6(500, SinDeg(2 * sma + mnm))

\* Lines 101-108.
deltat(time_julian, time_julian_2, time_julian_3) ==
    IF time_julian < -11000000
    THEN 1000 + MulDiv(time_julian, 839, 1000000)
              + MulDiv(time_julian_2, 2261, 10000000)
              - MulDiv(time_julian_3, 845, 100000000)
              - MulDiv(TruncDiv(Mul6(time_julian, time_julian_3), 10),
                       81, 100000000)
    ELSE -278 + MulDiv(time_julian, 265, 1000000)
              + MulDiv(time_julian_2, 262, 1000000)

\* Line 110, micro being julian_day_1 + moon_arg_lat - deltat.
new_moon_instant(k_th, micro) ==
    <<NewMoonEpoch + 29 * k_th + micro \div 1000000, micro % 1000000>>

new_moon_cubed(k_th, time_julian, time_julian_2, time_julian_3) ==
    new_moon_instant(k_th,
        julian_day_1(k_th, time_julian, time_julian_2, time_julian_3)
          + moon_arg_lat(time_julian,
                mean_new_moon(k_th, time_julian_2, time_julian_3),
                sun_mean_anomaly(k_th, time_julian_2, time_julian_3),
                moon_mean_anomaly(k_th, time_julian_2, time_julian_3))
          - deltat(time_julian, time_julian_2, time_julian_3))

new_moon_squared(k_th, time_julian, time_julian_2) ==
    new_moon_cubed(k_th, time_julian, time_julian_2,
                   Mul6(time_julian_2, time_julian))

new_moon_century(k_th, time_julian) ==
    new_moon_squared(k_th, time_julian, Mul6(time_julian, time_julian))

\* new_moon(k_th) as <<whole day, micro-days>>: the instant is
\* whole + micro * 1e-6, with 0 <= micro < 1e6.
new_moon(k_th) == new_moon_century(k_th, MulDiv(k_th, 100000000, 123685))

\* Line 144 for the instant nm: int(nm + 0.5 + time_zone / 24.), time_zone
\* in whole hours.
local_day(nm, time_zone) ==
    nm[1] + (nm[2] + 500000 + (time_zone * 1000000) \div 24) \div 1000000

get_new_moon_day_calc(k, time_zone) == local_day(new_moon(k), time_zone)

(***************************************************************************)
(* Sun longitude (lunar_solar.py, lines 114-139)                           *)
(***************************************************************************)

\* J2000.0, the day number time_in_julian is counted from.
J2000 == 2451545

\* The quantities of sun_longitude in 1e-4 degree rather than in radians;
\* hours counts the instant from J2000 and time_in_julian is hours / 876600
\* in 1e-6 century.

\* Lines 120-121, reduced to the first turn.
mean_time(hours, time_in_julian_2, time_in_julian_3) ==
    (3575291 + MulDiv(hours, 359990503, 876600)
       - MulDiv(TruncDiv(time_in_julian_2, 10), 1559, 100000000)
       - MulDiv(TruncDiv(time_in_julian_3, 100), 48, 100000000)) % 3600000

\* Line 122.
mean_degree(hours, time_in_julian_2) ==
    2804664 + MulDiv(hours, 360007698, 876600)
      + MulDiv(TruncDiv(time_in_julian_2, 10), 3032, 100000000)

\* Lines 123-128 in 1e-6 degree, mt being mean_time.
mean_long_degree(time_in_julian, time_in_julian_2, mt) ==
      Mul6(1914600 - MulDiv(time_in_julian, 4817, 1000000)
                   - MulDiv(time_in_julian_2, 14, 1000000), SinDeg(mt))
    + Mul6(19993 - MulDiv(time_in_julian, 101, 1000000), SinDeg(2 * mt))
    + Mul6(290, SinDeg(3 * mt))

\* Line 132: long_degree less 2 pi * int(long_degree / (2 pi)).  int
\* truncates toward zero, so a negative long_degree stays negative, in
\* (-360, 0] degrees.
normalized_longitude(long_degree) ==
    long_degree - 3600000 * TruncDiv(long_degree, 3600000)

sun_longitude_cubed(hours, time_in_julian, time_in_julian_2, time_in_julian_3) ==
    normalized_longitude(
        mean_degree(hours, time_in_julian_2)
          + TruncDiv(mean_long_degree(time_in_julian, time_in_julian_2,
                         mean_time(hours, time_in_julian_2, time_in_julian_3)),
                     100))

sun_longitude_squared(hours, time_in_julian, time_in_julian_2) ==
    sun_longitude_cubed(hours, time_in_julian, time_in_julian_2,
                        Mul6(time_in_julian_2, time_in_julian))

sun_longitude_century(hours, time_in_julian) ==
    sun_longitude_squared(hours, time_in_julian,
                          Mul6(time_in_julian, time_in_julian))

sun_longitude_hours(hours) ==
    sun_longitude_century(hours, MulDiv(hours, 1000000, 876600))

\* sun_longitude(day_number - 0.5 - time_zone / 24).
sun_longitude(day_number, time_zone) ==
    sun_longitude_hours(24 * (day_number - J2000) - 12 - time_zone)

\* int(sun_longitude(...) / math.pi * 6): the 30-degree sector, truncated
\* toward zero.
get_sun_longitude_calc(day_number, time_zone) ==
    TruncDiv(sun_longitude(day_number, time_zone), 300000)


(***************************************************************************)
(* Tabulation.  The sensors always convert with the default time zone, and *)
(* a conversion asks for the same few new moons again and again, so the    *)
(* new-moon days and the sun's sector at each of them are tabulated once   *)
(* for the lunations of the years the model visits.  Outside the table the *)
(* value is computed directly, so the tables change no result.             *)
(***************************************************************************)

\* time_zone: float = 7, the default of solar_to_lunar and lunar_to_solar.
DefaultTimeZone == 7

\* The model's dates run from 1 Jan of FirstYear to 31 Dec of LastYear.
YearsBefore1900 == 100
YearsAfter1900 == 200
FirstYear == 1900 - YearsBefore1900
LastYear == 1900 + YearsAfter1900

\* The lunations the tables hold: those of the years FirstYear - 2 to
\* LastYear + 3, counted from 1900 at 12.37 lunations a year.
TabFirstK == -((YearsBefore1900 + 2) * 1237) \div 100 - 1
TabLastK == ((YearsAfter1900 + 3) * 1237) \div 100 + 1

\* f @@ <<>> is f itself; TLC evaluates it to a table, once.
NewMoonDayTable ==
    [k \in TabFirstK..TabLastK |-> get_new_moon_day_calc(k, DefaultTimeZone)] @@ <<>>

get_new_moon_day(k, time_zone) ==
    IF time_zone = DefaultTimeZone /\ k \in TabFirstK..TabLastK
    THEN NewMoonDayTable[k]
    ELSE get_new_moon_day_calc(k, time_zone)

SunSectorTable ==
    [k \in TabFirstK..TabLastK |->
        get_sun_longitude_calc(NewMoonDayTable[k], DefaultTimeZone)] @@ <<>>

\* get_sun_longitude(get_new_moon_day(k, time_zone), time_zone): the sector
\* of the sun at the local midnight that starts the day of the k-th new moon.
sun_sector_at_new_moon(k, time_zone) ==
    IF time_zone = DefaultTimeZone /\ k \in TabFirstK..TabLastK
    THEN SunSectorTable[k]
    ELSE get_sun_longitude_calc(get_new_moon_day(k, time_zone), time_zone)

(***************************************************************************)
(* Lunation indexes: int(x / 29.530588853) for a time x in days, given as  *)
(* whole days plus nano-days, computed exactly.                            *)
(***************************************************************************)

\* The day number the lunation estimates count from (2415021 and
\* 2415021.076998695 in the code).
LunationEpoch == 2415021

\* k * 29.530588853 as <<whole days, nano-days>>, for k >= 0.
LunationMultiple(k) ==
    <<29 * k + (k * 530588 + (k * 853) \div 1000) \div 1000000,
      ((k * 530588 + (k * 853) \div 1000) % 1000000) * 1000 + ((k * 853) % 1000)>>

\* Whether the time p is at most the time v, both <<whole days, nano-days>>.
LunationAtMost(p, v) == p[1] < v[1] \/ (p[1] = v[1] /\ p[2] <= v[2])

\* The largest k >= 0 with k * 29.530588853 <= v, for v >= 0 given as
\* <<whole days, nano-days>>; k is tried downward from an upper estimate.
RECURSIVE LunationFloorFrom(_, _)
LunationFloorFrom(k, v) ==
    IF LunationAtMost(LunationMultiple(k), v) THEN k
    ELSE LunationFloorFrom(k - 1, v)

LunationFloor(v) == LunationFloorFrom(((v[1] + 1) * 1000) \div 29530, v)

\* int((days + nano * 1e-9) / 29.530588853), 0 <= nano < 1e9: truncated
\* toward zero, as Python's int is.
TruncLunations(days, nano) ==
    Sign(days) * LunationFloor(IF days >= 0 THEN <<days, nano>>
                               ELSE IF nano > 0
                                    THEN <<-days - 1, 1000000000 - nano>>
                               ELSE <<-days, 0>>)

(***************************************************************************)
(* Month 11 and the leap month (lunar_solar.py, lines 147-170)             *)
(***************************************************************************)

\* Lines 151-155 for the lunation estimate k: the new moon k, or the one
\* before it when the sun has reached sector 9 at the new moon k.
lunar_month_11_near(k, time_zone) ==
    get_new_moon_day(IF sun_sector_at_new_moon(k, time_zone) >= 9 THEN k - 1
                     ELSE k, time_zone)

get_lunar_month_11(yy, time_zone) ==
    lunar_month_11_near(
        TruncLunations(julian_day_from_date(31, 12, yy) - LunationEpoch, 0),
        time_zone)

\* The loop of get_leap_month_offset leaves at the latest when i reaches this.
LeapScanStop == 14

\* A variant of the test below that lets the loop run one index further.
leap_scan_break_late(arc, last, i) == ~(arc # last /\ i < LeapScanStop + 1)

\* Whether the do-while loop of get_leap_month_offset leaves after reading
\* arc at index i, the previous arc being last.
leap_scan_break(arc, last, i) == ~(arc # last /\ i < LeapScanStop)

\* The loop of get_leap_month_offset from an iteration on: i and arc are
\* the values at the top of the loop body, arcs[j] is the sector at the new
\* moon k + j.  Returns i - 1 at the break.
RECURSIVE leap_scan(_, _, _)
leap_scan(arcs, i, arc) ==
    IF leap_scan_break(arcs[i + 1], arc, i + 1) THEN (i + 1) - 1
    ELSE leap_scan(arcs, i + 1, arcs[i + 1])

\* Lines 163-170 over arcs, arcs[j] being the sector at the new moon k + j.
leap_offset_of(arcs) == leap_scan(arcs, 1, arcs[1])

\* int((a11 - 2415021.076998695) / 29.530588853 + 0.5): half a lunation
\* less 0.076998695 is 14.688295731 days.
lunation_of_month_11(a11) ==
    TruncLunations(a11 - LunationEpoch + 14, 688295731)

sectors_after(k, time_zone) ==
    [j \in 1..LeapScanStop |-> sun_sector_at_new_moon(k + j, time_zone)]

get_leap_month_offset(a11, time_zone) ==
    leap_offset_of(sectors_after(lunation_of_month_11(a11), time_zone))


(***************************************************************************)
(* The converters (lunar_solar.py, lines 173-231)                          *)
(***************************************************************************)

\* A variant of the normalisation below that leaves month 13 as it is.
normalized_month_above_13(lunar_month) ==
    IF lunar_month > 13 THEN lunar_month - 12 ELSE lunar_month

\* Lines 201-202: if lunar_month > 12: lunar_month = lunar_month - 12.
normalized_month(lunar_month) ==
    IF lunar_month > 12 THEN lunar_month - 12 ELSE lunar_month

\* Lines 193-202 of solar_to_lunar: the month number and the leap flag from
\* the month offset diff, has13 being b11 - a11 > 365 and leap_month_diff the
\* result of get_leap_month_offset (read only when has13).
lunar_month_and_leap(diff, has13, leap_month_diff) ==
    <<normalized_month(IF has13 /\ diff >= leap_month_diff THEN diff + 10
                       ELSE diff + 11),
      IF has13 /\ diff = leap_month_diff THEN 1 ELSE 0>>

\* Line 179: the lunation estimate k,
\* int((day_number - 2415021.076998695) / 29.530588853).
lunation_estimate(day_number) ==
    TruncLunations(day_number - LunationEpoch - 1, 923001305)

\* Lines 180-182: the new moon k + 1, or the new moon k when that one is
\* after the day.
month_start_pick(day_number, next_start, this_start) ==
    IF next_start > day_number THEN this_start ELSE next_start

month_start_near(day_number, k, time_zone) ==
    month_start_pick(day_number, get_new_moon_day(k + 1, time_zone),
                     get_new_moon_day(k, time_zone))

month_start_of(day_number, time_zone) ==
    month_start_near(day_number, lunation_estimate(day_number), time_zone)

\* solar_to_lunar with its local variables, each stage from the ones before
\* it: the result of the function is [lunar_day, lunar_month, lunar_year,
\* lunar_leap].  year0 is lunar_year before line 203, month_leap the pair
\* of lunar_month and lunar_leap.
solar_to_lunar_result(day_number, month_start, a11, b11, year0, diff, leap_month_diff, month_leap) ==
    [ lunar_day       |-> day_number - month_start + 1,
      lunar_month     |-> month_leap[1],
      lunar_year      |-> IF month_leap[1] >= 11 /\ diff < 4 THEN year0 - 1
                          ELSE year0,
      lunar_leap      |-> month_leap[2],
      day_number      |-> day_number,
      month_start     |-> month_start,
      a11             |-> a11,
      b11             |-> b11,
      diff            |-> diff,
      leap_month_diff |-> leap_month_diff ]

solar_to_lunar_leap(day_number, month_start, a11, b11, year0, diff, leap_month_diff) ==
    solar_to_lunar_result(day_number, month_start, a11, b11, year0, diff,
        leap_month_diff,
        lunar_month_and_leap(diff, b11 - a11 > 365, leap_month_diff))

solar_to_lunar_year(day_number, month_start, a11, b11, year0, time_zone) ==
    solar_to_lunar_leap(day_number, month_start, a11, b11, year0,
        TruncDiv(month_start - a11, 29),
        IF b11 - a11 > 365 THEN get_leap_month_offset(a11, time_zone) ELSE 0)

\* Lines 184-191, m11 being get_lunar_month_11(solar_yy, time_zone).
solar_to_lunar_month_11(day_number, month_start, m11, solar_yy, time_zone) ==
    solar_to_lunar_year(day_number, month_start,
        IF m11 >= month_start THEN get_lunar_month_11(solar_yy - 1, time_zone)
        ELSE m11,
        IF m11 >= month_start THEN m11
        ELSE get_lunar_month_11(solar_yy + 1, time_zone),
        IF m11 >= month_start THEN solar_yy ELSE solar_yy + 1,
        time_zone)

solar_to_lunar_day(day_number, solar_yy, time_zone) ==
    solar_to_lunar_month_11(day_number, month_start_of(day_number, time_zone),
                            get_lunar_month_11(solar_yy, time_zone),
                            solar_yy, time_zone)

solar_to_lunar_locals(solar_dd, solar_mm, solar_yy, time_zone) ==
    solar_to_lunar_day(julian_day_from_date(solar_dd, solar_mm, solar_yy),
                       solar_yy, time_zone)

lunar_date_of(locals) ==
    <<locals.lunar_day, locals.lunar_month, locals.lunar_year,
      locals.lunar_leap>>

solar_to_lunar(solar_dd, solar_mm, solar_yy, time_zone) ==
    lunar_date_of(solar_to_lunar_locals(solar_dd, solar_mm, solar_yy, time_zone))

\* Line 224: leap_month = leap_off - 2, plus 12 when negative.
leap_month_of(leap_off) ==
    IF leap_off - 2 < 0 THEN leap_off - 2 + 12 ELSE leap_off - 2

\* Lines 221-229 of lunar_to_solar, for a year with b11 - a11 > 365: the
\* offset of the month from month 11, or -1 where the function returns
\* [0, 0, 0].
leap_adjusted_off(off, leap_off, lunar_month, lunar_leap_month) ==
    IF lunar_leap_month # 0 /\ lunar_month # leap_month_of(leap_off) THEN -1
    ELSE IF lunar_leap_month # 0 \/ off >= leap_off THEN off + 1
    ELSE off

\* Lines 218-220: off = lunar_month - 11, plus 12 when negative.
month_offset(lunar_month) ==
    IF lunar_month - 11 < 0 THEN lunar_month - 11 + 12 ELSE lunar_month - 11

\* lunar_to_solar with its local variables, each stage from the ones before
\* it: the result of the function is the field solar_date, [0, 0, 0] where
\* the leap month is refused.
lunar_to_solar_result(lunar_day, a11, b11, off, time_zone) ==
    [ a11        |-> a11,
      b11        |-> b11,
      solar_date |->
          IF off = -1 THEN <<0, 0, 0>>
          ELSE julian_day_to_date(
                   get_new_moon_day(lunation_of_month_11(a11) + off, time_zone)
                     + lunar_day - 1) ]

lunar_to_solar_year(lunar_day, lunar_month, lunar_leap_month, a11, b11, time_zone) ==
    lunar_to_solar_result(lunar_day, a11, b11,
        IF b11 - a11 > 365
        THEN leap_adjusted_off(month_offset(lunar_month),
                               get_leap_month_offset(a11, time_zone),
                               lunar_month, lunar_leap_month)
        ELSE month_offset(lunar_month),
        time_zone)

lunar_to_solar_locals(lunar_day, lunar_month, lunar_year, lunar_leap_month, time_zone) ==
    lunar_to_solar_year(lunar_day, lunar_month, lunar_leap_month,
        get_lunar_month_11(IF lunar_month < 11 THEN lunar_year - 1
                           ELSE lunar_year, time_zone),
        get_lunar_month_11(IF lunar_month < 11 THEN lunar_year
                           ELSE lunar_year + 1, time_zone),
        time_zone)

lunar_to_solar(lunar_day, lunar_month, lunar_year, lunar_leap_month, time_zone) ==
    lunar_to_solar_locals(lunar_day, lunar_month, lunar_year, lunar_leap_month,
                          time_zone).solar_date

(***************************************************************************)
(* Names (lunar_solar.py, lines 9-14 and 234-251)                          *)
(***************************************************************************)

\* The names are written in Telex, the spelling of Vietnamese in plain
\* letters (aa ee oo for the circumflex, uw ow for the horn, dd for the
\* barred d, and a final s f r x j for the five tone marks), which keeps
\* distinct names distinct.
CAN == <<"Giasp", "Aast", "Bisnh", "DDinh", "Maaju", "Kyr", "Canh", "Taan",
         "Nhaam", "Quys">>

CHI == <<"Tis", "Suwru", "Daafn", "Maxo", "Thifn", "Tij", "Ngoj", "Mufi",
         "Thaan", "Daaju", "Tuaast", "Howji">>

\* The two lists of day_in_week.
DayNamesViet == <<"Thuws 2", "Thuws 3", "Thuws 4", "Thuws 5", "Thuws 6",
                  "Thuws 7", "Chur nhaajt">>

DayNamesEnglish == <<"Mon", "Tue", "Wed", "Thu", "Fri", "Sat", "Sun">>

\* A variant of the index below, one place further in the table.
day_in_week_index_shifted(solar_dd, solar_mm, solar_yy) ==
    (julian_day_from_date(solar_dd, solar_mm, solar_yy) + 1) % 7

\* A variant of the Chi index below with the modulus of the Can index.
zodiac_chi_index_short(year) == (year + 8) % 10

\* A Python list is indexed from 0, a TLA+ sequence from 1.
day_in_week_index(solar_dd, solar_mm, solar_yy) ==
    julian_day_from_date(solar_dd, solar_mm, solar_yy) % 7

day_in_week(solar_dd, solar_mm, solar_yy, viet_language) ==
    LET date_index == day_in_week_index(solar_dd, solar_mm, solar_yy)
    IN  IF viet_language # 0 THEN DayNamesViet[date_index + 1]
        ELSE DayNamesEnglish[date_index + 1]

zodiac_can_index(year) == (year + 6) % 10

zodiac_chi_index(year) == (year + 8) % 12

\* "{} {}".format(CAN[can_index], CHI[chi_index]), as the pair of the names.
zodiac_year(year) ==
    <<CAN[zodiac_can_index(year) + 1], CHI[zodiac_chi_index(year) + 1]>>

(***************************************************************************)
(* The civil calendar the inputs are drawn from: the Julian calendar up to *)
(* 4 October 1582, the Gregorian calendar from 15 October 1582.            *)
(***************************************************************************)

LastJulianDate == <<4, 10, 1582>>
FirstGregorianDate == <<15, 10, 1582>>

IsLeapYear(cy) ==
    IF cy > FirstGregorianDate[3]
    THEN cy % 4 = 0 /\ (cy % 100 # 0 \/ cy % 400 = 0)
    ELSE cy % 4 = 0

DaysInMonth(cm, cy) ==
    IF cm = 2 THEN (IF IsLeapYear(cy) THEN 29 ELSE 28)
    ELSE IF cm \in {4, 6, 9, 11} THEN 30 ELSE 31

\* The date of the day after cdate, a <<day, month, year>>.
NextDate(cdate) ==
    IF cdate = LastJulianDate THEN FirstGregorianDate
    ELSE IF cdate[1] < DaysInMonth(cdate[2], cdate[3])
         THEN <<cdate[1] + 1, cdate[2], cdate[3]>>
    ELSE IF cdate[2] < 12 THEN <<1, cdate[2] + 1, cdate[3]>>
    ELSE <<1, 1, cdate[3] + 1>>

\* The dates of the years from cfirst to clast.
DatesOfYears(cfirst, clast) ==
    { <<cd, cm, cy>> : cd \in 1..31, cm \in 1..12, cy \in cfirst..clast }
      \ { <<cd, cm, cy>> \in (1..31) \X (1..12) \X (cfirst..clast) :
             \/ cd > DaysInMonth(cm, cy)
             \/ cy = LastJulianDate[3] /\ cm = LastJulianDate[2]
                  /\ cd > LastJulianDate[1] /\ cd < FirstGregorianDate[1] }

\* The position of a name in a table, counted from 0 as Python does.
IndexIn(table, name) == CHOOSE j \in 0..(Len(table) - 1) : table[j + 1] = name

(***************************************************************************)
(* The Julian-day primitives and day_in_week applied to the successive     *)
(* days of the calendar.                                                   *)
(***************************************************************************)

\* The walk covers this many years before the calendar change.
YearsBeforeCutover == 100

VARIABLES jd_civil, jd_number, jd_back, jd_names

vars_julian == <<jd_civil, jd_number, jd_back, jd_names>>

JulianIdle ==
    /\ jd_civil = <<>>
    /\ jd_number = 0
    /\ jd_back = <<>>
    /\ jd_names = <<>>

\* julian_day_from_date, julian_day_to_date of its result, and day_in_week
\* with both name lists, applied to the date cdate.
JulianApply(cdate) ==
    LET jdn == julian_day_from_date(cdate[1], cdate[2], cdate[3])
    IN  /\ jd_civil' = cdate
        /\ jd_number' = jdn
        /\ jd_back' = julian_day_to_date(jdn)
        /\ jd_names' = <<day_in_week(cdate[1], cdate[2], cdate[3], 1),
                         day_in_week(cdate[1], cdate[2], cdate[3], 0)>>

\* The walk starts on 1 January of any of its years.
JulianFirstDates ==
    { <<1, 1, cy>> : cy \in (FirstGregorianDate[3] - YearsBeforeCutover)..LastYear }

JulianInit ==
    \E cdate \in JulianFirstDates :
        /\ jd_civil = cdate
        /\ jd_number = julian_day_from_date(cdate[1], cdate[2], cdate[3])
        /\ jd_back = julian_day_to_date(
                         julian_day_from_date(cdate[1], cdate[2], cdate[3]))
        /\ jd_names = <<day_in_week(cdate[1], cdate[2], cdate[3], 1),
                        day_in_week(cdate[1], cdate[2], cdate[3], 0)>>

JulianDayStep ==
    /\ jd_civil # <<31, 12, LastYear>>
    /\ JulianApply(NextDate(jd_civil))

(***************************************************************************)
(* zodiac_year applied to a year.                                          *)
(***************************************************************************)

\* The years drawn are those from -ZodiacSpan to ZodiacSpan.
ZodiacSpan == 2200

VARIABLES zy_year, zy_name

vars_zodiac == <<zy_year, zy_name>>

ZodiacIdle ==
    /\ zy_year = 0
    /\ zy_name = <<>>

ZodiacInit ==
    /\ zy_year \in -ZodiacSpan..ZodiacSpan
    /\ zy_name = <<>>

ZodiacApply ==
    /\ zy_name = <<>>
    /\ zy_name' = zodiac_year(zy_year)
    /\ UNCHANGED zy_year

(***************************************************************************)
(* The loop of get_leap_month_offset, one iteration at a time, over        *)
(* arbitrary sectors.                                                      *)
(***************************************************************************)

\* get_sun_longitude returns int(longitude / pi * 6): with the longitude
\* strictly inside (-2 pi, 2 pi) this is one of -11..11.
SectorCount == 12

Sectors == (1 - SectorCount)..(SectorCount - 1)

VARIABLES scan_pc, scan_i, scan_last, scan_arc, scan_first_equal,
          scan_steps, scan_result

vars_scan == <<scan_pc, scan_i, scan_last, scan_arc, scan_first_equal,
               scan_steps, scan_result>>

ScanBegin ==
    /\ scan_pc = "call"
    /\ scan_i = 0
    /\ scan_last = 0
    /\ scan_arc = 0
    /\ scan_first_equal = 0
    /\ scan_steps = 0
    /\ scan_result = 0

ScanIdle ==
    /\ scan_pc = "idle"
    /\ scan_i = 0
    /\ scan_last = 0
    /\ scan_arc = 0
    /\ scan_first_equal = 0
    /\ scan_steps = 0
    /\ scan_result = 0

\* Lines 160-163: last = 0, i = 1, arc = the sector at the new moon k + 1.
ScanEnter ==
    /\ scan_pc = "call"
    /\ \E sector \in Sectors : scan_arc' = sector
    /\ scan_last' = 0
    /\ scan_i' = 1
    /\ scan_pc' = "loop"
    /\ UNCHANGED <<scan_first_equal, scan_steps, scan_result>>

\* Lines 165-170: one pass of the loop body, then the break test and, at the
\* break, return i - 1.  scan_first_equal records the first index whose
\* sector equals the one before it, scan_steps counts the passes.
ScanIterate ==
    /\ scan_pc = "loop"
    /\ \E sector \in Sectors :
          /\ scan_last' = scan_arc
          /\ scan_i' = scan_i + 1
          /\ scan_arc' = sector
          /\ scan_first_equal' =
                IF scan_first_equal = 0 /\ sector = scan_arc THEN scan_i + 1
                ELSE scan_first_equal
          /\ IF leap_scan_break(sector, scan_arc, scan_i + 1)
             THEN /\ scan_pc' = "return"
                  /\ scan_result' = (scan_i + 1) - 1
             ELSE /\ scan_pc' = "loop"
                  /\ scan_result' = scan_result
    /\ scan_steps' = scan_steps + 1

(***************************************************************************)
(* The converters applied to a request: a solar date, converted to the     *)
(* lunar date and back, or a lunar date, converted to the solar date.      *)
(***************************************************************************)

\* The days of the lunar month that lunar requests are drawn from.
LunarDays == {1, 15, 30}

VARIABLES lc_request, lc_lunar, lc_solar

vars_lunar == <<lc_request, lc_lunar, lc_solar>>

LunarIdle ==
    /\ lc_request = [kind |-> "none", day |-> 0, month |-> 0, year |-> 0,
                     leap |-> 0]
    /\ lc_lunar = <<>>
    /\ lc_solar = <<>>

SolarRequests(cfirst, clast) ==
    { [kind |-> "solar", day |-> cdate[1], month |-> cdate[2],
       year |-> cdate[3], leap |-> 0] :
          cdate \in DatesOfYears(cfirst, clast) }

LunarRequests(cfirst, clast) ==
    [kind : {"lunar"}, day : LunarDays, month : 1..12,
     year : cfirst..clast, leap : {0, 1}]

LunarInit ==
    /\ lc_request \in SolarRequests(FirstYear, LastYear)
                       \cup LunarRequests(FirstYear, LastYear)
    /\ lc_lunar = <<>>
    /\ lc_solar = <<>>

\* solar_to_lunar(day, month, year) of a solar request.
SolarToLunar ==
    /\ lc_request.kind = "solar"
    /\ lc_lunar = <<>>
    /\ lc_lunar' = <<solar_to_lunar_locals(lc_request.day, lc_request.month,
                                           lc_request.year, DefaultTimeZone)>>
    /\ UNCHANGED <<lc_request, lc_solar>>

\* lunar_to_solar of the four numbers solar_to_lunar returned.
LunarBackToSolar ==
    /\ lc_request.kind = "solar"
    /\ lc_lunar # <<>>
    /\ lc_solar = <<>>
    /\ lc_solar' = <<lunar_to_solar_locals(lc_lunar[1].lunar_day,
                                           lc_lunar[1].lunar_month,
                                           lc_lunar[1].lunar_year,
                                           lc_lunar[1].lunar_leap,
                                           DefaultTimeZone)>>
    /\ UNCHANGED <<lc_request, lc_lunar>>

\* lunar_to_solar(day, month, year, leap) of a lunar request.
LunarToSolar ==
    /\ lc_request.kind = "lunar"
    /\ lc_solar = <<>>
    /\ lc_solar' = <<lunar_to_solar_locals(lc_request.day, lc_request.month,
                                           lc_request.year, lc_request.leap,
                                           DefaultTimeZone)>>
    /\ UNCHANGED <<lc_request, lc_lunar>>

(***************************************************************************)
(* The month and leap flag of solar_to_lunar (lines 192-202) given back to *)
(* the leap handling of lunar_to_solar (lines 218-229), in a lunar year of *)
(* 13 lunations, for every month offset and every leap offset.             *)
(***************************************************************************)

\* The results of get_leap_month_offset: i - 1 with i from 2 to 14.
LeapOffsets == 1..(LeapScanStop - 1)

\* The values of diff, int((month_start - a11) / 29.), in such a year.
MonthOffsets == 0..(LeapScanStop - 1)

\* la_leap_off is the result of get_leap_month_offset(a11, time_zone) and
\* la_diff the offset of the month from a11; la_label holds <<lunar_month,
\* lunar_leap>> once solar_to_lunar has run, la_off the offset lunar_to_solar
\* reaches line 230 with, -1 where it returned [0, 0, 0] at line 227.
VARIABLES la_leap_off, la_diff, la_label, la_off

vars_leap == <<la_leap_off, la_diff, la_label, la_off>>

LeapIdle ==
    /\ la_leap_off = 1
    /\ la_diff = 0
    /\ la_label = <<>>
    /\ la_off = <<>>

LeapInit ==
    /\ la_leap_off \in LeapOffsets
    /\ la_diff \in MonthOffsets
    /\ la_label = <<>>
    /\ la_off = <<>>

\* Lines 192-202 with b11 - a11 > 365.
LeapLabel ==
    /\ la_label = <<>>
    /\ la_label' = <<lunar_month_and_leap(la_diff, TRUE, la_leap_off)>>
    /\ UNCHANGED <<la_leap_off, la_diff, la_off>>

\* Lines 218-229 with b11 - a11 > 365, on the month and the leap flag of
\* the label.
LeapAccept ==
    /\ la_label # <<>>
    /\ la_off = <<>>
    /\ la_off' = <<leap_adjusted_off(month_offset(la_label[1][1]),
                                     la_leap_off, la_label[1][1],
                                     la_label[1][2])>>
    /\ UNCHANGED <<la_leap_off, la_diff, la_label>>

(***************************************************************************)
(* The sensors of the next lunar 1st and 15th (sensor.py, lines 30-72 and  *)
(* 185-259): added with an update pending, updated again at each midnight. *)
(***************************************************************************)

\* The clock runs over this many years up to LastYear.
ClockYears == 40

NextSensors == {"next_lunar_first", "next_lunar_fifteenth"}

\* now is the date of datetime.now(); pending holds the sensors whose update
\* is scheduled; the _call variables hold the arguments of the last call of
\* lunar_to_solar, the _state variables the native value and the extra
\* attributes, raised the sensors whose last update ended in an exception.
VARIABLES now, pending, first_call, first_state, fifteenth_call,
          fifteenth_state, raised

vars_sensor == <<now, pending, first_call, first_state, fifteenth_call,
                 fifteenth_state, raised>>

SensorIdle ==
    /\ now = <<>>
    /\ pending = {}
    /\ first_call = <<>>
    /\ first_state = <<>>
    /\ fifteenth_call = <<>>
    /\ fifteenth_state = <<>>
    /\ raised = {}

\* async_add_entities(sensors, True): every sensor is updated once when it
\* is added.  The sensors are added on the first day of any month of the
\* clock's years.
SensorInit ==
    /\ now \in { <<1, cm, cy>> : cm \in 1..12,
                                cy \in (LastYear - ClockYears)..LastYear }
    /\ pending = NextSensors
    /\ first_call = <<>>
    /\ first_state = <<>>
    /\ fifteenth_call = <<>>
    /\ fifteenth_state = <<>>
    /\ raised = {}

\* A variant of the call below that passes 0 as the time zone.
sensor_call_time_zone_0(lunar_day, lunar_month, lunar_year) ==
    [ lunar_day |-> lunar_day, lunar_month |-> lunar_month,
      lunar_year |-> lunar_year, lunar_leap_month |-> 0, time_zone |-> 0 ]

\* Lines 210 and 250: lunar_to_solar(day, month, year, 0).  The fourth
\* positional argument is lunar_leap_month; time_zone is left at its default.
sensor_call(lunar_day, lunar_month, lunar_year) ==
    [ lunar_day |-> lunar_day, lunar_month |-> lunar_month,
      lunar_year |-> lunar_year, lunar_leap_month |-> 0,
      time_zone |-> DefaultTimeZone ]

call_lunar_to_solar(call) ==
    lunar_to_solar(call.lunar_day, call.lunar_month, call.lunar_year,
                   call.lunar_leap_month, call.time_zone)

\* Lines 211-219 and 251-259: the state a sensor takes from a result whose
\* day is not 0.  strftime("%d/%m/%Y") writes the three numbers of the date;
\* the difference of two dates in days is the difference of their day
\* numbers.
sensor_state(solar_date, lunar_month, lunar_year, today) ==
    [ native_value |-> <<solar_date[1], solar_date[2], solar_date[3]>>,
      solar_date   |-> <<solar_date[1], solar_date[2], solar_date[3]>>,
      lunar_month  |-> lunar_month,
      lunar_year   |-> lunar_year,
      days_until   |->
          julian_day_from_date(solar_date[1], solar_date[2], solar_date[3])
            - julian_day_from_date(today[1], today[2], today[3]) ]

\* Lines 201-207: the month after the lunar month of today, as
\* <<next_month, next_year>>.
month_after(lunar) ==
    IF lunar[2] + 1 > 12 THEN <<1, lunar[3] + 1>> ELSE <<lunar[2] + 1, lunar[3]>>

\* Lines 238-247: the month of the next 15th, as <<target_month, target_year>>.
month_of_fifteenth(lunar) ==
    IF lunar[1] >= 15 THEN month_after(lunar) ELSE <<lunar[2], lunar[3]>>

\* NextLunarFirstSensor.async_update.  With lunar_day < 1 neither next_month
\* nor next_year is assigned and line 210 raises UnboundLocalError.
NextLunarFirstUpdate ==
    /\ "next_lunar_first" \in pending
    /\ pending' = pending \ {"next_lunar_first"}
    /\ \E lunar \in {solar_to_lunar(now[1], now[2], now[3], DefaultTimeZone)} :
          IF lunar[1] >= 1
          THEN \E call \in {sensor_call(1, month_after(lunar)[1],
                                        month_after(lunar)[2])} :
               \E solar_date \in {call_lunar_to_solar(call)} :
                  /\ first_call' = <<call>>
                  /\ first_state' =
                        IF solar_date[1] # 0
                        THEN <<sensor_state(solar_date, call.lunar_month,
                                            call.lunar_year, now)>>
                        ELSE first_state
                  /\ raised' = raised \ {"next_lunar_first"}
          ELSE /\ raised' = raised \cup {"next_lunar_first"}
               /\ UNCHANGED <<first_call, first_state>>
    /\ UNCHANGED <<now, fifteenth_call, fifteenth_state>>

\* NextLunarFifteenthSensor.async_update.
NextLunarFifteenthUpdate ==
    /\ "next_lunar_fifteenth" \in pending
    /\ pending' = pending \ {"next_lunar_fifteenth"}
    /\ \E lunar \in {solar_to_lunar(now[1], now[2], now[3], DefaultTimeZone)} :
       \E call \in {sensor_call(15, month_of_fifteenth(lunar)[1],
                                month_of_fifteenth(lunar)[2])} :
       \E solar_date \in {call_lunar_to_solar(call)} :
          /\ fifteenth_call' = <<call>>
          /\ fifteenth_state' =
                IF solar_date[1] # 0
                THEN <<sensor_state(solar_date, call.lunar_month,
                                    call.lunar_year, now)>>
                ELSE fifteenth_state
    /\ UNCHANGED <<now, first_call, first_state, raised>>

\* The clock passes midnight: _async_update_at_midnight schedules the update
\* of every sensor.  The updates of the day before have run by then.
Midnight ==
    /\ pending = {}
    /\ now # <<31, 12, LastYear>>
    /\ now' = NextDate(now)
    /\ pending' = NextSensors
    /\ UNCHANGED <<first_call, first_state, fifteenth_call, fifteenth_state,
                   raised>>

(***************************************************************************)
(* The specifications: each takes the steps of one of the machines above   *)
(* and leaves the variables of the others alone.                           *)
(***************************************************************************)

vars == <<vars_julian, vars_zodiac, vars_scan, vars_lunar, vars_leap,
         vars_sensor>>

SensorFirst ==
    /\ NextLunarFirstUpdate
    /\ UNCHANGED <<vars_julian, vars_zodiac, vars_scan, vars_lunar, vars_leap>>

SensorFifteenth ==
    /\ NextLunarFifteenthUpdate
    /\ UNCHANGED <<vars_julian, vars_zodiac, vars_scan, vars_lunar, vars_leap>>

SensorMidnight ==
    /\ Midnight
    /\ UNCHANGED <<vars_julian, vars_zodiac, vars_scan, vars_lunar, vars_leap>>

Init ==
    /\ SensorInit
    /\ JulianIdle /\ ZodiacIdle /\ ScanIdle /\ LunarIdle /\ LeapIdle

Next == SensorFirst \/ SensorFifteenth \/ SensorMidnight

Spec == Init /\ [][Next]_vars

InitJulian ==
    /\ JulianInit
    /\ ZodiacIdle /\ ScanIdle /\ LunarIdle /\ SensorIdle /\ LeapIdle

NextJulian ==
    /\ JulianDayStep
    /\ UNCHANGED <<vars_zodiac, vars_scan, vars_lunar, vars_sensor, vars_leap>>

SpecJulian == InitJulian /\ [][NextJulian]_vars

InitZodiac ==
    /\ ZodiacInit
    /\ JulianIdle /\ ScanIdle /\ LunarIdle /\ SensorIdle /\ LeapIdle

NextZodiac ==
    /\ ZodiacApply
    /\ UNCHANGED <<vars_julian, vars_scan, vars_lunar, vars_sensor, vars_leap>>

SpecZodiac == InitZodiac /\ [][NextZodiac]_vars

InitScan ==
    /\ ScanBegin
    /\ JulianIdle /\ ZodiacIdle /\ LunarIdle /\ SensorIdle /\ LeapIdle

ScanFirst ==
    /\ ScanEnter
    /\ UNCHANGED <<vars_julian, vars_zodiac, vars_lunar, vars_sensor, vars_leap>>

ScanNext ==
    /\ ScanIterate
    /\ UNCHANGED <<vars_julian, vars_zodiac, vars_lunar, vars_sensor, vars_leap>>

NextScan == ScanFirst \/ ScanNext

SpecScan == InitScan /\ [][NextScan]_vars

InitLunar ==
    /\ LunarInit
    /\ JulianIdle /\ ZodiacIdle /\ ScanIdle /\ SensorIdle /\ LeapIdle

LunarForward ==
    /\ SolarToLunar
    /\ UNCHANGED <<vars_julian, vars_zodiac, vars_scan, vars_sensor, vars_leap>>

LunarBack ==
    /\ LunarBackToSolar
    /\ UNCHANGED <<vars_julian, vars_zodiac, vars_scan, vars_sensor, vars_leap>>

LunarInverse ==
    /\ LunarToSolar
    /\ UNCHANGED <<vars_julian, vars_zodiac, vars_scan, vars_sensor, vars_leap>>

NextLunar == LunarForward \/ LunarBack \/ LunarInverse

SpecLunar == InitLunar /\ [][NextLunar]_vars

InitLeap ==
    /\ LeapInit
    /\ JulianIdle /\ ZodiacIdle /\ ScanIdle /\ LunarIdle /\ SensorIdle

LeapForward ==
    /\ LeapLabel
    /\ UNCHANGED <<vars_julian, vars_zodiac, vars_scan, vars_lunar, vars_sensor>>

LeapInverse ==
    /\ LeapAccept
    /\ UNCHANGED <<vars_julian, vars_zodiac, vars_scan, vars_lunar, vars_sensor>>

NextLeap == LeapForward \/ LeapInverse

SpecLeap == InitLeap /\ [][NextLeap]_vars

(***************************************************************************)
(* Properties                                                              *)
(***************************************************************************)

\* C1: for every solar date of the years 1900 to 2100, with time zone 7,
\* lunar_to_solar of the four numbers solar_to_lunar returned is the solar
\* date itself.
C1_RoundTrip ==
    (lc_request.kind = "solar" /\ lc_request.year >= 1900 /\ lc_solar # <<>>)
        => lc_solar[1].solar_date
             = <<lc_request.day, lc_request.month, lc_request.year>>

\* C2: in a lunar year without a 13th lunation (b11 - a11 <= 365),
\* lunar_to_solar with a leap argument other than 0 returns [0, 0, 0], for
\* every month.
C2_LeapRejected ==
    (/\ lc_request.kind = "lunar"
     /\ lc_request.leap # 0
     /\ lc_solar # <<>>
     /\ lc_solar[1].b11 - lc_solar[1].a11 <= 365)
        => lc_solar[1].solar_date = <<0, 0, 0>>

\* C3: julian_day_to_date(julian_day_from_date(d, m, y)) is [d, m, y] for
\* every date of the walk, Julian dates up to 4 October 1582 and Gregorian
\* dates from 15 October 1582.
C3_JulianRoundTrip == jd_back = jd_civil

C3_Witness ==
    /\ jd_civil = LastJulianDate
    /\ jd_number = GregorianStart - 1
    /\ jd_back = LastJulianDate

\* C4: the day after a date has the day number one greater, at month ends,
\* leap days, year ends and over the step from 4 to 15 October 1582 alike;
\* so, by induction along the calendar, an earlier date has the smaller
\* day number.
C4_JulianDayIncreasing ==
    [][jd_civil' = NextDate(jd_civil) => jd_number' = jd_number + 1]_vars

C4_Witness ==
    /\ jd_civil = FirstGregorianDate
    /\ jd_number = GregorianStart

\* C5: zodiac_year(y) = zodiac_year(y + 60) for every year y, negative ones
\* included; the names are those at (y + 6) mod 10 of CAN and (y + 8) mod 12
\* of CHI, both inside the tables; no shift of 1 to 59 years gives the same
\* name; and zodiac_year(1984) is Giap Ti.
C5_ZodiacPeriod ==
    zy_name # <<>> =>
        /\ zy_name = zodiac_year(zy_year + 60)
        /\ (zy_year + 6) % 10 \in 0..(Len(CAN) - 1)
        /\ (zy_year + 8) % 12 \in 0..(Len(CHI) - 1)
        /\ zy_name = <<CAN[((zy_year + 6) % 10) + 1], CHI[((zy_year + 8) % 12) + 1]>>
        /\ \A shift \in 1..59 : zodiac_year(zy_year + shift) # zy_name
        /\ zy_year = 1984 => zy_name = <<"Giasp", "Tis">>

C5_Witness ==
    /\ zy_year = -1
    /\ zy_name = <<"Kyr", "Mufi">>

\* C6: day_in_week returns the entry at (day number) mod 7 of a table of 7
\* names whose entry 0 is Monday (1 January 2000 was a Saturday), so the
\* names of a date and of the day after it are at the indexes i and
\* (i + 1) mod 7, in the Vietnamese and in the English list.
C6_WeekdayCycle ==
    /\ [](/\ Len(DayNamesViet) = 7
          /\ Len(DayNamesEnglish) = 7
          /\ jd_names = <<DayNamesViet[(jd_number % 7) + 1],
                          DayNamesEnglish[(jd_number % 7) + 1]>>
          /\ jd_civil = <<1, 1, 2000>> => jd_names = <<"Thuws 7", "Sat">>)
    /\ [][jd_civil' = NextDate(jd_civil) =>
             /\ IndexIn(DayNamesViet, jd_names'[1])
                  = (IndexIn(DayNamesViet, jd_names[1]) + 1) % 7
             /\ IndexIn(DayNamesEnglish, jd_names'[2])
                  = (IndexIn(DayNamesEnglish, jd_names[2]) + 1) % 7]_vars

C6_Witness ==
    /\ jd_civil = <<3, 1, 2000>>
    /\ jd_names = <<"Thuws 2", "Mon">>

\* C7 as the specification states it: the sensors call lunar_to_solar with
\* the leap argument 0 and the time zone 0.
C7_CallTimeZone0 ==
    /\ first_call # <<>> =>
          first_call[1].lunar_leap_month = 0 /\ first_call[1].time_zone = 0
    /\ fifteenth_call # <<>> =>
          fifteenth_call[1].lunar_leap_month = 0
            /\ fifteenth_call[1].time_zone = 0

\* C7 as the code has it: the sensors call lunar_to_solar with the day 1 or
\* 15, the leap argument 0 and the default time zone 7, and the date a
\* sensor shows is the result of a call with these arguments.
C7_CallDefaultTimeZone ==
    /\ first_call # <<>> =>
          /\ first_call[1].lunar_day = 1
          /\ first_call[1].lunar_leap_month = 0
          /\ first_call[1].time_zone = 7
    /\ fifteenth_call # <<>> =>
          /\ fifteenth_call[1].lunar_day = 15
          /\ fifteenth_call[1].lunar_leap_month = 0
          /\ fifteenth_call[1].time_zone = 7
    /\ first_state # <<>> =>
          first_state[1].native_value
            = lunar_to_solar(1, first_state[1].lunar_month,
                             first_state[1].lunar_year, 0, 7)
    /\ fifteenth_state # <<>> =>
          fifteenth_state[1].native_value
            = lunar_to_solar(15, fifteenth_state[1].lunar_month,
                             fifteenth_state[1].lunar_year, 0, 7)

C7_Witness ==
    /\ first_call # <<>>
    /\ first_state # <<>>
    /\ fifteenth_call # <<>>
    /\ fifteenth_state # <<>>
    /\ now = <<2, 1, LastYear - ClockYears>>

\* C8: whatever the sectors at the successive new moons, the loop of
\* get_leap_month_offset makes at most 13 passes and returns a number from
\* 1 to 13: one less than the first index from 2 to 13 whose sector equals
\* the one before it, and 13 when no such index exists up to 14 (or the
\* first such index is 14).
C8_ScanBounded ==
    /\ scan_steps <= 13
    /\ scan_pc = "loop" => scan_i \in 1..13 /\ scan_steps = scan_i - 1
    /\ scan_pc = "return" =>
          /\ scan_result \in 1..13
          /\ scan_steps = scan_result
          /\ scan_first_equal \in 2..13 => scan_result = scan_first_equal - 1
          /\ scan_first_equal \in {0, 14} => scan_result = 13

C8_Witness ==
    /\ scan_pc = "return"
    /\ scan_first_equal = 0
    /\ scan_steps = 13
    /\ scan_result = 13

\* C9: for every solar date from 1800 on, the month start solar_to_lunar
\* chooses is not after the day, so that the lunar day it returns is at
\* least 1 and at most 30.
C9_LunarDayRange ==
    (lc_request.kind = "solar" /\ lc_lunar # <<>>) =>
        /\ lc_lunar[1].month_start <= lc_lunar[1].day_number
        /\ lc_lunar[1].lunar_day \in 1..30

\* For every month offset from 0 to 13, in a year with or without a 13th
\* lunation and for every leap offset, lines 201-202 leave a month from 1
\* to 12.
NormalisationSuffices ==
    \A diff \in 0..13, has13 \in BOOLEAN, leap_month_diff \in 1..13 :
        lunar_month_and_leap(diff, has13, leap_month_diff)[1] \in 1..12

\* C10: every result of solar_to_lunar has its month from 1 to 12; the leap
\* flag is 1 only in a lunar year with b11 - a11 > 365 and only for the
\* month whose offset diff is the result of get_leap_month_offset; diff is
\* from 0 to 13, and for every such diff the one subtraction of 12 brings
\* the month into 1..12.
C10_MonthAndLeap ==
    /\ (lc_request.kind = "solar" /\ lc_lunar # <<>>) =>
          /\ lc_lunar[1].lunar_month \in 1..12
          /\ lc_lunar[1].lunar_leap \in {0, 1}
          /\ lc_lunar[1].diff \in 0..13
          /\ lc_lunar[1].lunar_leap = 1 =>
                /\ lc_lunar[1].b11 - lc_lunar[1].a11 > 365
                /\ lc_lunar[1].diff
                     = get_leap_month_offset(lc_lunar[1].a11, DefaultTimeZone)
    /\ NormalisationSuffices

C10_Witness ==
    /\ lc_request.kind = "solar"
    /\ lc_lunar # <<>>
    /\ lc_lunar[1].lunar_leap = 1
    /\ lc_lunar[1].lunar_month = 2
    /\ lc_lunar[1].lunar_year = 2023
    /\ lc_lunar[1].lunar_day = 1

\* C11: for every leap offset from 1 to 13, the month number solar_to_lunar
\* returns with the leap flag 1 (the month at diff = leap offset) is the
\* leap_month lunar_to_solar computes from the same offset, so that
\* lunar_to_solar does not answer [0, 0, 0] to a leap date solar_to_lunar
\* produced; a leap 12th month (offset 2) included.
C11_LeapMonthAgrees ==
    (la_label # <<>> /\ la_label[1][2] = 1) =>
        /\ la_label[1][1] = leap_month_of(la_leap_off)
        /\ la_off # <<>> => la_off[1] # -1

\* C12: whenever one of the two sensors has set its value, the date it
\* shows is after the date of the update: days_until > 0, whatever the
\* lunar date of the day, the first 14 days of a leap month included.
C12_NextDateLater ==
    /\ first_state # <<>> => first_state[1].days_until > 0
    /\ fifteenth_state # <<>> => fifteenth_state[1].days_until > 0

=============================================================================
